---- MODULE Spec2Model ----
(***************************************************************************)
(* A model of src/main.py, the Flask backend of the AI Resume Analyzer:    *)
(* allowed_file, extract_text_from_pdf, analyse_resume,                    *)
(* parse_analysis_sections, _build_section and the POST /analyse handler.  *)
(*                                                                         *)
(* Text is a sequence of one-character strings, so that strip, split,      *)
(* join, lower and the substring test are computed character by character  *)
(* as Python computes them.                                                *)
(***************************************************************************)
EXTENDS Integers, Sequences, FiniteSets, TLC

VARIABLES
    pc,              \* which operation is under way, and its position
    raw_text,        \* parse_analysis_sections: the argument
    src_lines,       \* the lines the text was assembled from (history of the input)
    sections,        \* parse_analysis_sections: the returned list
    title,           \* _build_section: the title argument
    section,         \* _build_section: the returned dict
    pages,           \* extract_text_from_pdf: what extract_text() gives per page
    extracted,       \* extract_text_from_pdf: its outcome (return or raise)
    request,         \* POST /analyse: request.files and request.form
    environ,         \* os.environ.get("GROQ_API_KEY")
    pdf,             \* what PyPDF2 makes of the uploaded bytes
    groq,            \* what the Groq call does when it is made
    resume_text,     \* analyse(): local
    job_description, \* analyse(): local
    messages,        \* the messages handed to chat.completions.create
    exc,             \* the exception in flight inside the try block
    response,        \* what analyse() returns (the render_template arguments)
    calls,           \* how often extractor, client, remote call, parser ran
    logged,          \* app.logger.exception was called
    failed_at        \* history: the step whose failure is being handled

parserVars  == <<raw_text, src_lines, sections>>
iconVars    == <<title, section>>
extractVars == <<pages, extracted>>
handlerVars ==
    <<request, environ, pdf, groq, resume_text, job_description, messages,
      exc, response, calls, logged, failed_at>>

vars == <<pc, parserVars, iconVars, extractVars, handlerVars>>

----------------------------------------------------------------------------
(* Bounds of the model. *)

MaxLines == 3
MaxFragments == 2
MaxPages == 3

----------------------------------------------------------------------------
(* Python str primitives. *)

\* str.isspace() on the characters the model uses: the ASCII whitespace
\* that str.strip() removes and that the regex class \s matches.
IsSpace(c) == c \in {" ", "\t", "\n", "\r", "\f"}

UpperLetters ==
    <<"A","B","C","D","E","F","G","H","I","J","K","L","M",
      "N","O","P","Q","R","S","T","U","V","W","X","Y","Z">>

LowerLetters ==
    <<"a","b","c","d","e","f","g","h","i","j","k","l","m",
      "n","o","p","q","r","s","t","u","v","w","x","y","z">>

\* str.lower() on one character.
LowerChar(c) ==
    IF \E i \in 1..26 : UpperLetters[i] = c
    THEN LowerLetters[CHOOSE i \in 1..26 : UpperLetters[i] = c]
    ELSE c

\* str.lower()
Lower(s) == [i \in 1..Len(s) |-> LowerChar(s[i])]

\* str.lstrip()
LStrip(s) ==
    IF \A i \in 1..Len(s) : IsSpace(s[i])
    THEN <<>>
    ELSE SubSeq(s, CHOOSE i \in 1..Len(s) :
                       /\ ~IsSpace(s[i])
                       /\ \A j \in 1..(i-1) : IsSpace(s[j]),
                Len(s))

\* str.rstrip()
RStrip(s) ==
    IF \A i \in 1..Len(s) : IsSpace(s[i])
    THEN <<>>
    ELSE SubSeq(s, 1, CHOOSE i \in 1..Len(s) :
                          /\ ~IsSpace(s[i])
                          /\ \A j \in (i+1)..Len(s) : IsSpace(s[j]))

\* str.strip()
Strip(s) == LStrip(RStrip(s))

\* str.rstrip("#")
RStripHash(s) ==
    IF \A i \in 1..Len(s) : s[i] = "#"
    THEN <<>>
    ELSE SubSeq(s, 1, CHOOSE i \in 1..Len(s) :
                          /\ s[i] # "#"
                          /\ \A j \in (i+1)..Len(s) : s[j] = "#")

\* sub in s
Contains(s, sub) ==
    \E k \in 0..(Len(s) - Len(sub)) :
        \A i \in 1..Len(sub) : s[k + i] = sub[i]

RECURSIVE SplitFrom(_, _, _, _)
\* str.split(sep) for a one-character sep, scanning from position i with
\* the current piece cur: always returns at least one piece.
SplitFrom(s, sep, i, cur) ==
    IF i > Len(s) THEN <<cur>>
    ELSE IF s[i] = sep
         THEN <<cur>> \o SplitFrom(s, sep, i + 1, <<>>)
         ELSE SplitFrom(s, sep, i + 1, Append(cur, s[i]))

Split(s, sep) == SplitFrom(s, sep, 1, <<>>)

RECURSIVE Join(_, _)
\* sep.join(parts)
Join(sep, parts) ==
    IF parts = <<>> THEN <<>>
    ELSE IF Len(parts) = 1 THEN parts[1]
         ELSE parts[1] \o sep \o Join(sep, Tail(parts))

NL == <<"\n">>

\* An optional value: Python's None, or a value.
None == <<>>
Some(v) == <<v>>

----------------------------------------------------------------------------
(* Result parsing: SECTION_ICONS, parse_analysis_sections, _build_section. *)

\* Glyphs are named by their code points.
IconStrengths == "U+1F4AA"
IconGaps      == "U+1F50D"
IconATS       == "U+1F3AF"
IconMatch     == "U+1F4CA"
IconSummary   == "U+1F4DD"
IconDefault   == "U+1F4CC"
IconFallback  == "U+1F4CB"

KeyStrengths == <<"K","e","y"," ","S","t","r","e","n","g","t","h","s">>
SkillGaps    == <<"S","k","i","l","l"," ","G","a","p","s">>
ATSUK ==
    <<"A","T","S"," ","O","p","t","i","m","i","s","a","t","i","o","n"," ",
      "S","u","g","g","e","s","t","i","o","n","s">>
ATSUS ==
    <<"A","T","S"," ","O","p","t","i","m","i","z","a","t","i","o","n"," ",
      "S","u","g","g","e","s","t","i","o","n","s">>
MatchPercentage ==
    <<"M","a","t","c","h"," ","P","e","r","c","e","n","t","a","g","e">>
OverallSummary ==
    <<"O","v","e","r","a","l","l"," ","S","u","m","m","a","r","y">>

\* The dict literal, in insertion order (the order .items() iterates in).
SECTION_ICONS ==
    << [key |-> KeyStrengths,    value |-> IconStrengths],
       [key |-> SkillGaps,       value |-> IconGaps],
       [key |-> ATSUK,           value |-> IconATS],
       [key |-> ATSUS,           value |-> IconATS],
       [key |-> MatchPercentage, value |-> IconMatch],
       [key |-> OverallSummary,  value |-> IconSummary] >>

RECURSIVE IconScan(_, _)
\* The for loop of _build_section from entry k on: the first key whose
\* lower-cased text is in the lower-cased title wins (break).
IconScan(t, k) ==
    IF k > Len(SECTION_ICONS) THEN IconDefault
    ELSE IF Contains(Lower(t), Lower(SECTION_ICONS[k].key))
         THEN SECTION_ICONS[k].value
         ELSE IconScan(t, k + 1)

RECURSIVE IconScanNoBreak(_, _, _)
IconScanNoBreak(t, k, icon) ==
    IF k > Len(SECTION_ICONS) THEN icon
    ELSE IconScanNoBreak(t, k + 1,
                         IF Contains(Lower(t), Lower(SECTION_ICONS[k].key))
                         THEN SECTION_ICONS[k].value ELSE icon)

\* Variant of IconFor: the loop without its break, so the last match wins.
IconFor_LastMatch(t) == IconScanNoBreak(t, 1, IconDefault)

IconFor(t) == IconScan(t, 1)

build_section(t, body_lines) ==
    [title |-> t, icon |-> IconFor(t), body |-> Strip(Join(NL, body_lines))]

\* re.match(r"^##\s+(.+)", t): the index where group 1 starts, 0 when the
\* pattern does not match.  \s+ is greedy, so it takes the longest run of
\* whitespace that still leaves .+ a character to match; "." matches
\* anything but a newline.
HeadingGroupStart(t) ==
    IF ~(Len(t) >= 3 /\ t[1] = "#" /\ t[2] = "#" /\ IsSpace(t[3])) THEN 0
    ELSE LET starts == {p \in 4..Len(t) :
                            /\ \A j \in 3..(p-1) : IsSpace(t[j])
                            /\ t[p] # "\n"}
         IN  IF starts = {} THEN 0
             ELSE CHOOSE p \in starts : \A q \in starts : q <= p

\* heading_match is not None
HeadingMatch(t) == HeadingGroupStart(t) # 0

\* heading_match.group(1): .+ runs to the end of the line (to the first
\* newline, which a line of the split text never holds).
HeadingGroup(t) ==
    LET from == HeadingGroupStart(t)
        stop == IF \E j \in from..Len(t) : t[j] = "\n"
                THEN (CHOOSE j \in from..Len(t) :
                          /\ t[j] = "\n"
                          /\ \A i \in from..(j-1) : t[i] # "\n") - 1
                ELSE Len(t)
    IN  SubSeq(t, from, stop)

\* Variant of HeadingTitle: trailing hash characters kept.
HeadingTitle_KeepHashes(t) == Strip(HeadingGroup(t))

\* heading_match.group(1).strip().rstrip("#").strip()
HeadingTitle(t) == Strip(RStripHash(Strip(HeadingGroup(t))))

\* One iteration of the for loop over raw_text.split("\n").
ParseLine(st, line) ==
    IF HeadingMatch(Strip(line))
    THEN [sections |->
              IF st.current_title # None
              THEN Append(st.sections,
                          build_section(st.current_title[1], st.current_body_lines))
              ELSE st.sections,
          current_body_lines |->
              IF st.current_title # None THEN <<>> ELSE st.current_body_lines,
          current_title |-> Some(HeadingTitle(Strip(line)))]
    ELSE [st EXCEPT !.current_body_lines = Append(@, line)]

RECURSIVE ParseLoop(_, _, _)
ParseLoop(lines, i, st) ==
    IF i > Len(lines) THEN st
    ELSE ParseLoop(lines, i + 1, ParseLine(st, lines[i]))

\* "Don't forget the last section"
FlushLast(st) ==
    IF st.current_title # None
    THEN Append(st.sections,
                build_section(st.current_title[1], st.current_body_lines))
    ELSE st.sections

AnalysisTitle == <<"A","n","a","l","y","s","i","s">>

\* Variants of Fallback: without the fallback card; with the body untrimmed.
Fallback_NoCard(secs, raw) == secs

Fallback_Untrimmed(secs, raw) ==
    IF secs = <<>>
    THEN <<[title |-> AnalysisTitle, icon |-> IconFallback, body |-> raw]>>
    ELSE secs

\* "Fallback: if no headings were detected, wrap everything in one card"
Fallback(secs, raw) ==
    IF secs = <<>>
    THEN <<[title |-> AnalysisTitle, icon |-> IconFallback, body |-> Strip(raw)]>>
    ELSE secs

parse_analysis_sections(raw) ==
    LET st == ParseLoop(Split(raw, "\n"), 1,
                        [sections |-> <<>>, current_title |-> None,
                         current_body_lines |-> <<>>])
    IN  Fallback(FlushLast(st), raw)

----------------------------------------------------------------------------
(* Outcomes of a call: a returned value or a raised exception.  An         *)
(* exception is its class and its str().                                   *)

Return(v) == [raised |-> FALSE, value |-> v]
Raise(e) == [raised |-> TRUE, exc |-> e]

\* The nearest of ValueError, RuntimeError and Exception above each exception
\* class the model uses (Python's built-in hierarchy, intermediate classes
\* such as LookupError left out; the library classes derive from Exception).
ExcBase ==
    [ ValueError          |-> "Exception",
      RuntimeError        |-> "Exception",
      UnicodeDecodeError  |-> "ValueError",
      NotImplementedError |-> "RuntimeError",
      PdfReadError        |-> "Exception",
      APIConnectionError  |-> "Exception",
      IndexError          |-> "Exception" ]

RECURSIVE IsInstance(_, _)
\* What an "except target:" clause tests.
IsInstance(cls, target) ==
    \/ cls = target
    \/ cls \in DOMAIN ExcBase /\ IsInstance(ExcBase[cls], target)

----------------------------------------------------------------------------
(* allowed_file *)

ALLOWED_EXTENSIONS == { <<"p","d","f">> }

\* filename.rsplit(".", 1)[1], for a filename that holds a "."
AfterLastDot(filename) ==
    LET last == CHOOSE i \in 1..Len(filename) :
                    /\ filename[i] = "."
                    /\ \A j \in (i+1)..Len(filename) : filename[j] # "."
    IN  SubSeq(filename, last + 1, Len(filename))

\* Variant of allowed_file: the extension compared without .lower().
allowed_file_CaseSensitive(filename) ==
    /\ Contains(filename, <<".">>)
    /\ AfterLastDot(filename) \in ALLOWED_EXTENSIONS

allowed_file(filename) ==
    /\ Contains(filename, <<".">>)
    /\ Lower(AfterLastDot(filename)) \in ALLOWED_EXTENSIONS

----------------------------------------------------------------------------
(* extract_text_from_pdf *)

ExtractionMessage ==
    "Could not extract any text from the PDF. The file may be image-based or encrypted."

\* "if text:" for what page.extract_text() gave: neither None nor "".
Truthy(text) == text # None /\ text[1] # <<>>

RECURSIVE CollectPages(_, _, _)
\* The for loop over reader.pages from page i on.
CollectPages(ps, i, pages_text) ==
    IF i > Len(ps) THEN pages_text
    ELSE CollectPages(ps, i + 1,
                      IF Truthy(ps[i])
                      THEN Append(pages_text, Strip(ps[i][1]))
                      ELSE pages_text)

\* Variant of NoText: "if not full_text:", without the strip.
NoText_Unstripped(full_text) == full_text = <<>>

\* "if not full_text.strip():"
NoText(full_text) == Strip(full_text) = <<>>

\* doc is what PyPDF2 makes of the bytes: the per-page results of
\* extract_text(), or an exception of its own.
extract_text_from_pdf(doc) ==
    IF doc.kind = "raises" THEN Raise(doc.exc)
    ELSE LET pages_text == CollectPages(doc.pages, 1, <<>>)
             full_text == Join(<<"\n","\n">>, pages_text)
         IN  IF NoText(full_text)
             THEN Raise([cls |-> "ValueError", msg |-> ExtractionMessage])
             ELSE Return(full_text)

----------------------------------------------------------------------------
(* analyse_resume *)

ConfigurationMessage ==
    "GROQ_API_KEY environment variable is not set. Please set it before running the application."

\* Variant of ApiKeyMissing: "if api_key is None:", an empty key accepted.
ApiKeyMissing_OnlyNone(api_key) == api_key = None

\* "if not api_key:"
ApiKeyMissing(api_key) == api_key = None \/ api_key[1] = <<>>

\* The system prompt's headings and the user message, as far as they depend
\* on the arguments.
BuildMessages(resume, jd) ==
    [ system |->
          IF Strip(jd) # <<>>
          THEN <<"Key Strengths", "Skill Gaps", "ATS Optimisation Suggestions",
                 "Match Percentage", "Overall Summary">>
          ELSE <<"Key Strengths", "Skill Gaps", "ATS Optimisation Suggestions",
                 "Overall Summary">>,
      resume |-> resume,
      job |-> IF Strip(jd) # <<>> THEN Some(jd) ELSE None ]

----------------------------------------------------------------------------
(* The POST /analyse handler's messages. *)

NoFileMessage == "No file was uploaded. Please select a PDF resume."
NoFilenameMessage == "No file selected. Please choose a PDF file."
InvalidTypeMessage == "Invalid file type. Only PDF files are accepted."

GenericMessage(e) ==
    "An unexpected error occurred: " \o e.msg \o ". Please try again."

ErrorPage(msg) == [template |-> "index.html", error |-> Some(msg), sections |-> None]
ResultPage(secs) == [template |-> "index.html", error |-> None, sections |-> Some(secs)]

----------------------------------------------------------------------------
(* Inputs of the parser: texts assembled from up to MaxLines lines. *)

LineShapes ==
    { <<>>,
      <<" ">>,
      <<"a">>,
      <<" ","b"," ">>,
      <<"#","#"," ","a">>,
      <<" ","#","#","\t"," ","B"," ","#","#","\r">>,
      <<"#","#"," ","#","#">>,
      <<"#","#","a">>,
      <<"#","#">>,
      <<"#","#","#"," ","a">> }

RECURSIVE SeqsUpTo(_, _)
\* The sequences over S of length 1..n.
SeqsUpTo(S, n) ==
    IF n = 0 THEN {}
    ELSE LET shorter == SeqsUpTo(S, n - 1)
         IN  {<<x>> : x \in S} \cup shorter
               \cup {Append(q, x) : q \in shorter, x \in S}

LineSeqs == SeqsUpTo(LineShapes, MaxLines)

----------------------------------------------------------------------------
(* Inputs of _build_section: titles assembled from up to MaxFragments      *)
(* fragments.                                                              *)

TitleFragments ==
    { KeyStrengths, SkillGaps, ATSUK, ATSUS, MatchPercentage, OverallSummary,
      <<"K","E","Y"," ","S","T","R","E","N","G","T","H","S">>,
      <<"s","k","i","l","l"," ","g","a","p","s">>,
      <<" ","a","n","d"," ">>,
      <<"K","e","y"," ","S","t","r","e","n","g","t","h">>,
      <<"N","o","t","e","s">>,
      <<"A","T","S"," ","o","p","t","i","m","i">> }

RECURSIVE Concat(_)
Concat(parts) == IF parts = <<>> THEN <<>> ELSE parts[1] \o Concat(Tail(parts))

Titles == {Concat(fs) : fs \in SeqsUpTo(TitleFragments, MaxFragments)}

BodyLineSeqs == { <<>>, << <<" ","x">>, <<>>, <<"y"," ">>, <<>> >> }

----------------------------------------------------------------------------
(* Inputs of extract_text_from_pdf: up to MaxPages pages, each giving None *)
(* or a text.                                                              *)

PageResults ==
    { None, Some(<<>>), Some(<<" ">>), Some(<<"a">>), Some(<<" ","b","\n">>) }

PageSeqs == {<<>>} \cup SeqsUpTo(PageResults, MaxPages)

----------------------------------------------------------------------------
(* Inputs of a POST /analyse request, and what its collaborators do.       *)

Filenames ==
    { <<>>,
      <<"c",".","p","d","f">>,
      <<"C",".","P","D","F">>,
      <<"c",".","P","d","f">>,
      <<".","p","d","f">>,
      <<"c",".","t","x","t">>,
      <<"c",".","p","d","f",".","t","x","t">>,
      <<"c",".","t","x","t",".","p","d","f">>,
      <<"p","d","f">>,
      <<"c",".","p","d","f","x">> }

Requests ==
    [ files : {None} \cup {Some(f) : f \in Filenames},
      form  : {None, Some(<<" ">>), Some(<<" ","d","e","v"," ">>)} ]

ApiKeys == { None, Some(<<>>), Some(<<"k">>) }

PdfOutcomes ==
    { [kind |-> "pages", pages |-> <<>>],
      [kind |-> "pages", pages |-> <<None, Some(<<" ">>)>>],
      [kind |-> "pages", pages |-> <<Some(<<" ","a"," ">>), None, Some(<<"b">>)>>],
      [kind |-> "raises",
       exc |-> [cls |-> "PdfReadError", msg |-> "EOF marker not found"]],
      [kind |-> "raises",
       exc |-> [cls |-> "UnicodeDecodeError", msg |-> "invalid start byte"]],
      [kind |-> "raises",
       exc |-> [cls |-> "NotImplementedError", msg |-> "unsupported filter"]] }

GroqOutcomes ==
    { [kind |-> "reply", content |-> <<"#","#"," ","a","\n","b">>],
      [kind |-> "reply", content |-> <<"a"," ","b">>],
      [kind |-> "raises",
       exc |-> [cls |-> "APIConnectionError", msg |-> "Connection error."]],
      [kind |-> "raises",
       exc |-> [cls |-> "IndexError", msg |-> "list index out of range"]] }

----------------------------------------------------------------------------
(* The state before an operation has run. *)

NotRun == <<>>

NoCalls == [extractor |-> 0, client |-> 0, remote |-> 0, parser |-> 0]

ParserIdle == raw_text = <<>> /\ src_lines = <<>> /\ sections = NotRun
IconIdle == title = <<>> /\ section = NotRun
ExtractIdle == pages = <<>> /\ extracted = NotRun
HandlerIdle ==
    /\ request = None /\ environ = None /\ pdf = None /\ groq = None
    /\ resume_text = <<>> /\ job_description = <<>> /\ messages = None
    /\ exc = None /\ response = None
    /\ calls = NoCalls /\ logged = FALSE /\ failed_at = "none"

----------------------------------------------------------------------------
(* Specification of the parser: a text is chosen, then parsed. *)

InitParse ==
    /\ pc = "parse"
    /\ src_lines \in LineSeqs
    /\ raw_text = Join(NL, src_lines)
    /\ sections = NotRun
    /\ IconIdle /\ ExtractIdle /\ HandlerIdle

Parse ==
    /\ pc = "parse"
    /\ sections' = parse_analysis_sections(raw_text)
    /\ pc' = "parsed"
    /\ UNCHANGED <<raw_text, src_lines, iconVars, extractVars, handlerVars>>

SpecParse == InitParse /\ [][Parse]_vars

----------------------------------------------------------------------------
(* Specification of _build_section: a title and body lines are chosen,     *)
(* then the section dict is built.                                         *)

InitIcon ==
    /\ pc = "build"
    /\ title \in Titles
    /\ src_lines \in BodyLineSeqs
    /\ raw_text = <<>>
    /\ sections = NotRun
    /\ section = NotRun
    /\ ExtractIdle /\ HandlerIdle

BuildSection ==
    /\ pc = "build"
    /\ section' = build_section(title, src_lines)
    /\ pc' = "built"
    /\ UNCHANGED <<parserVars, title, extractVars, handlerVars>>

SpecIcon == InitIcon /\ [][BuildSection]_vars

----------------------------------------------------------------------------
(* Specification of the extractor: the per-page results are chosen, then   *)
(* extract_text_from_pdf runs.                                             *)

InitExtract ==
    /\ pc = "extract_text"
    /\ pages \in PageSeqs
    /\ extracted = NotRun
    /\ ParserIdle /\ IconIdle /\ HandlerIdle

Extract ==
    /\ pc = "extract_text"
    /\ extracted' = extract_text_from_pdf([kind |-> "pages", pages |-> pages])
    /\ pc' = "extracted"
    /\ UNCHANGED <<parserVars, iconVars, pages, handlerVars>>

SpecExtract == InitExtract /\ [][Extract]_vars

----------------------------------------------------------------------------
(* Specification of one POST /analyse request: analyse(), step by step.    *)

InitRequest ==
    /\ pc = "validate"
    /\ request \in Requests
    /\ environ \in ApiKeys
    /\ pdf \in PdfOutcomes
    /\ groq \in GroqOutcomes
    /\ resume_text = <<>> /\ job_description = <<>> /\ messages = None
    /\ exc = None /\ response = None
    /\ calls = NoCalls /\ logged = FALSE /\ failed_at = "none"
    /\ ParserIdle /\ IconIdle /\ ExtractIdle

\* Step 1: if "resume" not in request.files
RejectNoFile ==
    /\ pc = "validate"
    /\ request.files = None
    /\ response' = Some(ErrorPage(NoFileMessage))
    /\ pc' = "done"
    /\ UNCHANGED <<parserVars, iconVars, extractVars, request, environ, pdf,
                   groq, resume_text, job_description, messages, exc, calls,
                   logged, failed_at>>

\* Step 1: if file.filename == ""
RejectNoFilename ==
    /\ pc = "validate"
    /\ request.files # None
    /\ request.files[1] = <<>>
    /\ response' = Some(ErrorPage(NoFilenameMessage))
    /\ pc' = "done"
    /\ UNCHANGED <<parserVars, iconVars, extractVars, request, environ, pdf,
                   groq, resume_text, job_description, messages, exc, calls,
                   logged, failed_at>>

\* Step 1: if not allowed_file(file.filename)
RejectFileType ==
    /\ pc = "validate"
    /\ request.files # None
    /\ request.files[1] # <<>>
    /\ ~allowed_file(request.files[1])
    /\ response' = Some(ErrorPage(InvalidTypeMessage))
    /\ pc' = "done"
    /\ UNCHANGED <<parserVars, iconVars, extractVars, request, environ, pdf,
                   groq, resume_text, job_description, messages, exc, calls,
                   logged, failed_at>>

\* Step 1 passed.
AcceptUpload ==
    /\ pc = "validate"
    /\ request.files # None
    /\ request.files[1] # <<>>
    /\ allowed_file(request.files[1])
    /\ pc' = "extract"
    /\ UNCHANGED <<parserVars, iconVars, extractVars, handlerVars>>

\* Step 2: resume_text = extract_text_from_pdf(file.read())
ExtractStep ==
    /\ pc = "extract"
    /\ calls' = [calls EXCEPT !.extractor = @ + 1]
    /\ LET r == extract_text_from_pdf(pdf)
       IN  IF r.raised
           THEN /\ exc' = Some(r.exc)
                /\ failed_at' = IF pdf.kind = "raises" THEN "pdf_library"
                                ELSE "no_text"
                /\ pc' = "except"
                /\ UNCHANGED resume_text
           ELSE /\ resume_text' = r.value
                /\ pc' = "form"
                /\ UNCHANGED <<exc, failed_at>>
    /\ UNCHANGED <<parserVars, iconVars, extractVars, request, environ, pdf,
                   groq, job_description, messages, response, logged>>

\* Step 3: job_description = request.form.get("job_description", "").strip()
GetJobDescription ==
    /\ pc = "form"
    /\ job_description' =
           Strip(IF request.form = None THEN <<>> ELSE request.form[1])
    /\ pc' = "analyse"
    /\ UNCHANGED <<parserVars, iconVars, extractVars, request, environ, pdf,
                   groq, resume_text, messages, exc, response, calls, logged,
                   failed_at>>

\* Step 4, analyse_resume up to the Groq call: the API key is validated and
\* the prompt is built.
CheckApiKey ==
    /\ pc = "analyse"
    /\ IF ApiKeyMissing(environ)
       THEN /\ exc' = Some([cls |-> "RuntimeError", msg |-> ConfigurationMessage])
            /\ failed_at' = "no_key"
            /\ pc' = "except"
            /\ UNCHANGED messages
       ELSE /\ messages' = Some(BuildMessages(resume_text, job_description))
            /\ pc' = "call"
            /\ UNCHANGED <<exc, failed_at>>
    /\ UNCHANGED <<parserVars, iconVars, extractVars, request, environ, pdf,
                   groq, resume_text, job_description, response, calls, logged>>

\* Step 4, analyse_resume: client = Groq(...), chat.completions.create(...)
\* and the read of choices[0].message.content.
CallGroq ==
    /\ pc = "call"
    /\ calls' = [calls EXCEPT !.client = @ + 1, !.remote = @ + 1]
    /\ IF groq.kind = "raises"
       THEN /\ exc' = Some(groq.exc)
            /\ failed_at' = "remote"
            /\ pc' = "except"
            /\ UNCHANGED raw_text
       ELSE /\ raw_text' = groq.content
            /\ pc' = "parse"
            /\ UNCHANGED <<exc, failed_at>>
    /\ UNCHANGED <<src_lines, sections, iconVars, extractVars, request,
                   environ, pdf, groq, resume_text, job_description, messages,
                   response, logged>>

\* Step 5: sections = parse_analysis_sections(raw_analysis), then the
\* results page is rendered.
ParseStep ==
    /\ pc = "parse"
    /\ calls' = [calls EXCEPT !.parser = @ + 1]
    /\ sections' = parse_analysis_sections(raw_text)
    /\ response' = Some(ResultPage(sections'))
    /\ pc' = "done"
    /\ UNCHANGED <<raw_text, src_lines, iconVars, extractVars, request,
                   environ, pdf, groq, resume_text, job_description, messages,
                   exc, logged, failed_at>>

\* except ValueError as ve
ExceptValueError ==
    /\ pc = "except"
    /\ IsInstance(exc[1].cls, "ValueError")
    /\ response' = Some(ErrorPage(exc[1].msg))
    /\ exc' = None
    /\ pc' = "done"
    /\ UNCHANGED <<parserVars, iconVars, extractVars, request, environ, pdf,
                   groq, resume_text, job_description, messages, calls, logged,
                   failed_at>>

\* except RuntimeError as re_err
ExceptRuntimeError ==
    /\ pc = "except"
    /\ ~IsInstance(exc[1].cls, "ValueError")
    /\ IsInstance(exc[1].cls, "RuntimeError")
    /\ response' = Some(ErrorPage(exc[1].msg))
    /\ exc' = None
    /\ pc' = "done"
    /\ UNCHANGED <<parserVars, iconVars, extractVars, request, environ, pdf,
                   groq, resume_text, job_description, messages, calls, logged,
                   failed_at>>

\* except Exception as exc
ExceptException ==
    /\ pc = "except"
    /\ ~IsInstance(exc[1].cls, "ValueError")
    /\ ~IsInstance(exc[1].cls, "RuntimeError")
    /\ IsInstance(exc[1].cls, "Exception")
    /\ logged' = TRUE
    /\ response' = Some(ErrorPage(GenericMessage(exc[1])))
    /\ exc' = None
    /\ pc' = "done"
    /\ UNCHANGED <<parserVars, iconVars, extractVars, request, environ, pdf,
                   groq, resume_text, job_description, messages, calls,
                   failed_at>>

NextRequest ==
    \/ RejectNoFile \/ RejectNoFilename \/ RejectFileType \/ AcceptUpload
    \/ ExtractStep \/ GetJobDescription \/ CheckApiKey \/ CallGroq
    \/ ParseStep
    \/ ExceptValueError \/ ExceptRuntimeError \/ ExceptException

SpecRequest == InitRequest /\ [][NextRequest]_vars

----------------------------------------------------------------------------
(* Properties of the parser, stated over the lines the text was assembled  *)
(* from, not over the parser's own loop.                                   *)

\* A line is a heading line when its trimmed form is two hash characters,
\* then at least one whitespace character, then heading text.
IsHeadingLine(line) ==
    LET t == Strip(line)
    IN  /\ Len(t) >= 4
        /\ t[1] = "#" /\ t[2] = "#" /\ IsSpace(t[3])
        /\ \E j \in 4..Len(t) : ~IsSpace(t[j])

\* The heading text, trimmed, trailing hash characters removed, trimmed again.
CleanedHeading(line) ==
    LET t == Strip(line)
    IN  Strip(RStripHash(Strip(SubSeq(t, 3, Len(t)))))

HeadingCount == Cardinality({p \in 1..Len(src_lines) : IsHeadingLine(src_lines[p])})

\* The position in src_lines of the i-th heading line.
NthHeading(i) ==
    CHOOSE p \in 1..Len(src_lines) :
        /\ IsHeadingLine(src_lines[p])
        /\ Cardinality({q \in 1..p : IsHeadingLine(src_lines[q])}) = i

\* The position just before which the i-th section ends.
SectionEnd(i) == IF i < HeadingCount THEN NthHeading(i + 1) ELSE Len(src_lines) + 1

Glyphs ==
    {IconStrengths, IconGaps, IconATS, IconMatch, IconSummary, IconDefault,
     IconFallback}

\* C1: parse_analysis_sections returns, for every input string, a list of
\* at least one record with exactly the fields title, icon and body.
C1_TotalNonEmpty ==
    pc = "parsed" =>
        /\ Len(sections) >= 1
        /\ \A i \in 1..Len(sections) :
               /\ DOMAIN sections[i] = {"title", "icon", "body"}
               /\ sections[i].icon \in Glyphs

C1_Witness ==
    /\ pc = "parsed"
    /\ raw_text \in { <<>>, <<" ">>, <<"#","#">>, <<" ","\n"," ">> }
    /\ Len(sections) = 1

C4_BodyIntegrity ==
    (pc = "parsed" /\ HeadingCount >= 1) =>
        \A i \in 1..Len(sections) :
            i <= HeadingCount =>
                sections[i].body =
                    Strip(Join(NL, SubSeq(src_lines, NthHeading(i) + 1,
                                          SectionEnd(i) - 1)))

\* C5: every returned section has a title that is non-empty after trimming
\* and an icon that is a table glyph or a default glyph.
C5_SectionInvariant ==
    pc = "parsed" =>
        \A i \in 1..Len(sections) :
            /\ Strip(sections[i].title) # <<>>
            /\ sections[i].icon \in Glyphs

----------------------------------------------------------------------------
(* Properties of the icon lookup. *)

\* Two characters are the same letter in either case, or the same character.
SameIgnoringCase(a, b) ==
    \/ a = b
    \/ \E i \in 1..26 : {a, b} = {UpperLetters[i], LowerLetters[i]}

\* key occurs in t, compared case-insensitively.
OccursIn(key, t) ==
    \E k \in 0..(Len(t) - Len(key)) :
        \A i \in 1..Len(key) : SameIgnoringCase(t[k + i], key[i])

MatchingKeys(t) == {k \in 1..Len(SECTION_ICONS) : OccursIn(SECTION_ICONS[k].key, t)}

\* C6: _build_section gives the glyph of the first key of SECTION_ICONS, in
\* declared order, that occurs case-insensitively in the title, and the
\* default glyph when none occurs; a title holding several keys gets the
\* glyph of the earliest key in table order wherever the keys stand in the
\* title; the UK and US spellings of the ATS heading get the same glyph.
C6_IconFirstMatch ==
    pc = "built" =>
        /\ section.title = title
        /\ IF MatchingKeys(title) = {}
           THEN section.icon = "U+1F4CC"
           ELSE section.icon =
                    SECTION_ICONS[CHOOSE k \in MatchingKeys(title) :
                                      \A m \in MatchingKeys(title) : k <= m].value
        /\ (title = SkillGaps \o KeyStrengths => section.icon = "U+1F4AA")
        /\ (title \in {ATSUK, ATSUS} => section.icon = "U+1F3AF")

C6_Witness ==
    /\ pc = "built"
    /\ title = <<"s","k","i","l","l"," ","g","a","p","s">> \o <<"K","E","Y"," ","S","T","R","E","N","G","T","H","S">>
    /\ MatchingKeys(title) = {1, 2}
    /\ section.icon = "U+1F4AA"

----------------------------------------------------------------------------
(* Properties of the extractor. *)

\* The text of a page, None read as no text.
PageText(p) == IF p = None THEN <<>> ELSE p[1]

\* The pages that produced text: neither None nor the empty string.
ProducingPages == SelectSeq(pages, LAMBDA p : PageText(p) # <<>>)

\* C9: extract_text_from_pdf raises the extraction error exactly when all
\* the per-page texts together hold nothing but whitespace; otherwise it
\* returns the (trimmed) texts of the pages that produced text, in page
\* order, separated by a blank line; a page giving None or "" is skipped.
C9_ExtractorContract ==
    pc = "extracted" =>
        /\ extracted.raised <=>
               \A i \in 1..Len(pages) :
                   \A j \in 1..Len(PageText(pages[i])) :
                       IsSpace(PageText(pages[i])[j])
        /\ extracted.raised =>
               extracted.exc = [cls |-> "ValueError", msg |-> ExtractionMessage]
        /\ ~extracted.raised =>
               extracted.value =
                   Join(<<"\n","\n">>,
                        [i \in 1..Len(ProducingPages) |->
                             Strip(ProducingPages[i][1])])

C9_Witness ==
    /\ pc = "extracted"
    /\ pages = <<Some(<<" ","b","\n">>), None, Some(<<>>), Some(<<"a">>)>>
           \/ pages = <<Some(<<" ","b","\n">>), None, Some(<<"a">>)>>
    /\ ~extracted.raised
    /\ extracted.value = <<"b","\n","\n","a">>

----------------------------------------------------------------------------
(* Properties of the POST /analyse handler. *)

\* The filename ends in ".pdf", letters compared case-insensitively.
EndsWithDotPdf(f) ==
    /\ Len(f) >= 4
    /\ f[Len(f) - 3] = "."
    /\ SameIgnoringCase(f[Len(f) - 2], "p")
    /\ SameIgnoringCase(f[Len(f) - 1], "d")
    /\ SameIgnoringCase(f[Len(f)], "f")

UploadValid ==
    /\ request.files # None
    /\ request.files[1] # <<>>
    /\ EndsWithDotPdf(request.files[1])

\* Some page of the document gives text that is not all whitespace.
DocumentHasText ==
    /\ pdf.kind = "pages"
    /\ \E i \in 1..Len(pdf.pages) :
           \E j \in 1..Len(PageText(pdf.pages[i])) :
               ~IsSpace(PageText(pdf.pages[i])[j])

KeyPresent == environ # None /\ environ[1] # <<>>

\* C7: when the resume part is absent, or its filename is empty, or its
\* filename does not end in ".pdf" (case-insensitively), the handler answers
\* with that branch's own error message and the extractor, the client and
\* the parser are never invoked; a filename ending in ".pdf" in any letter
\* case passes validation.
C7_ValidationFirst ==
    /\ NoFileMessage # NoFilenameMessage
    /\ NoFileMessage # InvalidTypeMessage
    /\ NoFilenameMessage # InvalidTypeMessage
    /\ ~UploadValid => calls = NoCalls /\ pc \in {"validate", "done"}
    /\ (pc = "done" /\ ~UploadValid) =>
           response = Some(ErrorPage(
               IF request.files = None THEN NoFileMessage
               ELSE IF request.files[1] = <<>> THEN NoFilenameMessage
               ELSE InvalidTypeMessage))
    /\ (pc = "done" /\ UploadValid) =>
           /\ calls.extractor = 1
           /\ response[1].error \notin
                  {Some(NoFileMessage), Some(NoFilenameMessage),
                   Some(InvalidTypeMessage)}

C7_Witness ==
    /\ pc = "done"
    /\ request.files = Some(<<"c",".","p","d","f",".","t","x","t">>)
    /\ response = Some(ErrorPage(InvalidTypeMessage))
    /\ calls = NoCalls

\* C8: every failure of the extraction step or of the analysis call ends in
\* a rendered response; an extraction failure (no text) and a missing
\* credential are shown as their own message verbatim and are not logged as
\* unexpected; every other failure (of the PDF library, of the remote call)
\* is shown as the generic templated message and is logged.
C8_FailureMessages ==
    (pc = "done" /\ failed_at # "none") =>
        /\ response # None
        /\ failed_at = "no_text" =>
               response = Some(ErrorPage(ExtractionMessage)) /\ ~logged
        /\ failed_at = "no_key" =>
               response = Some(ErrorPage(ConfigurationMessage)) /\ ~logged
        /\ failed_at = "pdf_library" =>
               response = Some(ErrorPage(GenericMessage(pdf.exc))) /\ logged
        /\ failed_at = "remote" =>
               response = Some(ErrorPage(GenericMessage(groq.exc))) /\ logged

\* C10: per request the remote endpoint is called at most once, and only
\* after validation passed, extraction succeeded and the credential was
\* found; without the credential no client is built and no call is made;
\* a failed remote call is not repeated and the parser is not invoked.
C10_RemoteCallOnce ==
    /\ calls.remote <= 1 /\ calls.client <= 1
    /\ (calls.remote > 0 \/ calls.client > 0) =>
           UploadValid /\ DocumentHasText /\ KeyPresent
    /\ (pc = "done" /\ UploadValid /\ DocumentHasText /\ ~KeyPresent) =>
           /\ failed_at = "no_key"
           /\ response = Some(ErrorPage(ConfigurationMessage))
    /\ failed_at = "no_key" => calls.client = 0 /\ calls.remote = 0
    /\ (UploadValid /\ DocumentHasText /\ KeyPresent /\ pc \in {"except", "done"}) =>
           calls.remote = 1
    /\ failed_at = "remote" => calls.remote = 1 /\ calls.parser = 0
    /\ calls.parser > 0 =>
           calls.parser = 1 /\ calls.remote = 1 /\ groq.kind = "reply"

C10_Witness ==
    /\ pc = "done"
    /\ failed_at = "remote"
    /\ calls = [extractor |-> 1, client |-> 1, remote |-> 1, parser |-> 0]
    /\ response = Some(ErrorPage(GenericMessage(groq.exc)))

====
